---- MODULE Spec2Model ----
(***************************************************************************)
(* Model of src/SurvivalAnalysisUtils.py: the two notebook helpers         *)
(*   PlotKaplanMeierEstimatesForCategoricalVariables  (lines 15-82)        *)
(*   PlotKaplanMeierEstimatesForContinuousVariables   (lines 84-162)       *)
(* One behaviour is one call.  The state is the caller's dataset, the      *)
(* arguments, the figure's panels, the locals of km_fits and the position  *)
(* of the call (pc); an exception ends the call in pc = "raised".          *)
(*                                                                         *)
(* Library behaviour the code relies on (pandas >= 1.0, numpy, lifelines): *)
(*   - DataFrame.loc(axis=1)[list] and DataFrame[name] raise KeyError for  *)
(*     a missing label;                                                    *)
(*   - pd.cut(x, bins) has right=True, include_lowest=False, precision=3:  *)
(*     bins are (lo, hi], a value outside every bin becomes NaN, a         *)
(*     non-numeric column raises TypeError;                                *)
(*   - np.unique sorts: an object array that mixes Interval and NaN        *)
(*     raises TypeError, NaN differs from NaN;                             *)
(*   - numbers are exact rationals here (no floating point error).         *)
(* Datasets hold no missing values.                                        *)
(***************************************************************************)
EXTENDS Integers, Sequences, FiniteSets, TLC

VARIABLES
    routine,       \* "cat" | "cont": which of the two functions was called
    columns,       \* the categorical_columns / contituous_columns argument
    data,          \* the caller's DataFrame: column name -> row -> cell
    data0,         \* the DataFrame as it was when the call started
    pc,            \* position of the call
    idx,           \* enumerate() index of the for loop (0-based)
    ax,            \* ax.flatten(): the panels of the figure
    shown,         \* plt.show() was called
    exc,           \* the exception that ended the call, "none" otherwise
    excLine,       \* source line that raised it, 0 otherwise
    split_points,  \* km_fits parameter (continuous routine)
    range_hue,     \* km_fits local
    X,             \* km_fits local: durations of each subgroup
    Y,             \* km_fits local: event flags of each subgroup
    fit_label,     \* km_fits local
    fits           \* cat_fits / cont_fits

vars == <<routine, columns, data, data0, pc, idx, ax, shown, exc, excLine,
          split_points, range_hue, X, Y, fit_label, fits>>

-----------------------------------------------------------------------------
(* Bounds of the model.                                                    *)
MaxRows == 3
MaxCols == 8

-----------------------------------------------------------------------------
(* Cells of a DataFrame.  Every cell is a record of the same shape so that *)
(* cells of different Python types can be compared.                        *)
(*   num: a number a            str: the text s (a is its sort rank)       *)
(*   iv : pandas.Interval(a/1000, b/1000, closed='right')   nan: NaN       *)
Num(v) == [k |-> "num", a |-> v, b |-> 0, s |-> ""]
Txt(t, rank) == [k |-> "str", a |-> rank, b |-> 0, s |-> t]
Iv(l, r) == [k |-> "iv", a |-> l, b |-> r, s |-> ""]
NaN == [k |-> "nan", a |-> 0, b |-> 0, s |-> ""]

\* Python ==, elementwise: NaN equals nothing, itself included.
PyEq(u, v) == u.k # "nan" /\ v.k # "nan" /\ u = v

\* Python < on cells of one type (numbers, texts, Interval by (left, right)).
PyLess(u, v) == u.a < v.a \/ (u.a = v.a /\ u.b < v.b)

Abs(n) == IF n < 0 THEN -n ELSE n

Digit(d) == <<"0", "1", "2", "3", "4", "5", "6", "7", "8", "9">>[d + 1]

RECURSIVE NatStr(_)
NatStr(n) == IF n < 10 THEN Digit(n) ELSE NatStr(n \div 10) \o Digit(n % 10)

\* str() of a Python/numpy int.
IntStr(n) == IF n < 0 THEN "-" \o NatStr(-n) ELSE NatStr(n)

\* Fraction digits of f/1000, trailing zeros removed, at least one digit.
FracStr(f) ==
    IF f % 100 = 0 THEN Digit(f \div 100)
    ELSE IF f % 10 = 0 THEN Digit(f \div 100) \o Digit((f \div 10) % 10)
    ELSE Digit(f \div 100) \o Digit((f \div 10) % 10) \o Digit(f % 10)

\* str() of the float m/1000 (shortest repr: "30.0", "43.333", "-0.001").
FloatStr(m) ==
    (IF m < 0 THEN "-" ELSE "") \o NatStr(Abs(m) \div 1000) \o "."
        \o FracStr(Abs(m) % 1000)

\* str() of a cell.
PyStr(v) ==
    CASE v.k = "num" -> IntStr(v.a)
      [] v.k = "str" -> v.s
      [] v.k = "iv"  -> "(" \o FloatStr(v.a) \o ", " \o FloatStr(v.b) \o "]"
      [] v.k = "nan" -> "nan"

\* str.replace(old, new) for a one-character old.
RECURSIVE Replace(_, _, _)
Replace(str, old, new) ==
    IF str = "" THEN ""
    ELSE (IF Head(str) = old THEN new ELSE Head(str))
             \o Replace(Tail(str), old, new)

-----------------------------------------------------------------------------
(* DataFrame helpers.                                                      *)
HasColumn(df, name) == name \in DOMAIN df

\* Select with <= in place of == (seeded fault).
SelectUpTo(df, key, value, col) ==
    [r \in {q \in DOMAIN df[key] :
                PyEq(df[key][q], value) \/ PyLess(df[key][q], value)} |-> df[col][r]]

\* df[df[key] == value][col]: the Series of col restricted to the rows
\* whose key cell equals value (the Series keeps the row index).
Select(df, key, value, col) ==
    [r \in {q \in DOMAIN df[key] : PyEq(df[key][q], value)} |-> df[col][r]]

\* df[name] = column  (adds the column or overwrites it)
SetColumn(df, name, column) ==
    [c \in DOMAIN df \cup {name} |-> IF c = name THEN column ELSE df[c]]

\* df.drop(name, axis=1, inplace=True)
DropColumn(df, name) == [c \in DOMAIN df \ {name} |-> df[c]]

\* The sorted sequence of the distinct cells of a set (np.unique's result).
RECURSIVE SortedSeq(_)
SortedSeq(S) ==
    IF S = {} THEN <<>>
    ELSE LET m == CHOOSE u \in S : \A v \in S : ~PyLess(v, u)
         IN  <<m>> \o SortedSeq(S \ {m})

Range(f) == {f[r] : r \in DOMAIN f}

-----------------------------------------------------------------------------
(* pd.cut.  Values are integers; bin edges are held in units of 1/3000 so  *)
(* that a third of a range and the 0.1% adjustment are exact; the          *)
(* endpoints of the resulting Interval are in units of 1/1000.             *)
Unit == 3 * 1000

IsNumeric(x) == \A r \in DOMAIN x : x[r].k = "num"

ColMin(x) == CHOOSE m \in {x[r].a : r \in DOMAIN x} : \A r \in DOMAIN x : m <= x[r].a
ColMax(x) == CHOOSE m \in {x[r].a : r \in DOMAIN x} : \A r \in DOMAIN x : m >= x[r].a

\* 0.001 * abs(v) if v != 0 else 0.001, in units of 1/3000
EndAdjust(v) == IF v # 0 THEN 3 * Abs(v) ELSE 3

\* The bin edges pd.cut works with: the given cut points, or for an integer
\* bin count linspace(min, max, n + 1) with the first edge lowered by 0.1% of
\* the range (both ends moved by 0.1% of the value when min = max).
CutEdges(x, sp) ==
    IF sp.n = 0
    THEN [j \in 1..Len(sp.edges) |-> sp.edges[j] * Unit]
    ELSE LET mn == ColMin(x)
             mx == ColMax(x)
         IN  IF mn = mx
             THEN LET lo == mn * Unit - EndAdjust(mn)
                      hi == mx * Unit + EndAdjust(mx)
                  IN  [j \in 1..(sp.n + 1) |-> lo + (j - 1) * ((hi - lo) \div sp.n)]
             ELSE [j \in 1..(sp.n + 1) |->
                      mn * Unit + (j - 1) * (((mx - mn) * Unit) \div sp.n)
                          - (IF j = 1 THEN (mx - mn) * 3 ELSE 0)]

\* _round_frac(edge, precision=3): the edge rounded to a multiple of 1/1000.
\* (Below 1 pandas keeps three significant digits instead; the edges of the
\* datasets modelled are then multiples of 1/1000 or above 0.1, where both
\* agree, and the rounded edges stay distinct, so precision stays 3.)
RoundFrac(e) == (2 * e + 3) \div 6

\* edges.searchsorted(v, side='left'): the number of edges below v.
SearchSorted(edges, v) == Cardinality({j \in DOMAIN edges : edges[j] < v * Unit})

\* The bin of one value: (edges[id], edges[id+1]] or NaN outside every bin.
CutCell(edges, v) ==
    LET id == SearchSorted(edges, v)
    IN  IF id = 0 \/ id = Len(edges) THEN NaN
        ELSE Iv(RoundFrac(edges[id]), RoundFrac(edges[id + 1]))

\* pd.cut(x=column, bins=sp): [err, col]
PdCut(x, sp) ==
    IF ~IsNumeric(x) THEN [err |-> "TypeError", col |-> <<>>]
    ELSE [err |-> "none",
          col |-> [r \in DOMAIN x |-> CutCell(CutEdges(x, sp), x[r].a)]]

\* The categories pd.cut creates for a bin specification (all k of them).
CutCategories(x, sp) ==
    LET e == CutEdges(x, sp)
    IN  [j \in 1..(Len(e) - 1) |-> Iv(RoundFrac(e[j]), RoundFrac(e[j + 1]))]

\* The column as it is, neither sorted nor deduplicated (seeded fault).
NpUniqueKeepsAll(x) ==
    [err |-> "none", val |-> [i \in 1..Cardinality(DOMAIN x) |-> x[i]]]

\* np.unique(column): [err, val].  The column is sorted first: comparing an
\* Interval with NaN raises TypeError; NaN never equals NaN, so a column of
\* NaN only keeps every entry.
NpUnique(x) ==
    LET nans == {r \in DOMAIN x : x[r].k = "nan"}
    IN  IF nans = {} THEN [err |-> "none", val |-> SortedSeq(Range(x))]
        ELSE IF nans = DOMAIN x
             THEN [err |-> "none", val |-> [i \in 1..Cardinality(nans) |-> NaN]]
             ELSE [err |-> "TypeError", val |-> <<>>]

\* KaplanMeierFitter().fit(durations, event_observed, label): the fitted
\* curve keeps what it was fitted on and its label.
KmFit(x, y, label) == [label |-> label, durations |-> x, event_observed |-> y]

\* lifelines rejects an empty duration array ("Empty array/Series passed in.")
FitRejects(x) == DOMAIN x = {}

-----------------------------------------------------------------------------
(* Program constants.                                                      *)
CatNRows == 2
CatNCols == 3
ContNRows == 3
ContNCols == 3

CatPanels == CatNRows * CatNCols
ContPanels == ContNRows * ContNCols

\* data_split_points, line 145: cut points (n = 0) or a bin count n.
Edges(e) == [edges |-> e, n |-> 0]
Count(n) == [edges |-> <<>>, n |-> n]
data_split_points ==
    <<Edges(<<30, 60, 80, 100>>), Count(3), Edges(<<0, 30, 45, 100>>),
      Count(3), Count(3), Count(3), Count(3)>>

NoSplit == Count(0)

\* The label without its ': ' separator (seeded fault).
CatLabelNoSeparator(feature, v) == feature \o PyStr(v)

\* str(curr_Feature + ': ' + str(range_hue_i)), line 62
CatLabel(feature, v) == feature \o ": " \o PyStr(v)

\* The label with the first replacement only (seeded fault).
ContLabelOneReplace(v) == Replace(PyStr(v), ",", " -")

\* str(str(range_hue_i).replace(',',' -').replace(']',')')), line 136
ContLabel(v) == Replace(Replace(PyStr(v), ",", " -"), "]", ")")

\* str(curr_Feature) + "_group", line 131
HueGroup(feature) == feature \o "_group"

\* A lookup that checks the first name only (seeded fault).
LocFailsFirstOnly(df, names) == names # <<>> /\ ~HasColumn(df, names[1])

\* data.loc(axis=1)[names]: KeyError unless every name is a column.
LocFails(df, names) == \E i \in DOMAIN names : ~HasColumn(df, names[i])

\* The first bin specification for every position (seeded fault).
SplitPointsFirst(i) == data_split_points[1]

\* data_split_points[i] (0-based): IndexError past the end of the list.
SplitIndexFails(i) == i >= Len(data_split_points)
SplitPointsAt(i) == data_split_points[i + 1]

EmptyPanel == [visible |-> TRUE, title |-> "", curves |-> <<>>]

\* x.plot(title=feature, ..., ax=panel) for every fitted curve x
PlotInto(panel, feature, curves) ==
    [panel EXCEPT !.title = feature, !.curves = panel.curves \o curves]

\* ax.flatten()[-k].set_visible(False)
HideFromEnd(panels, k) ==
    [panels EXCEPT ![Len(panels) - k + 1].visible = FALSE]

-----------------------------------------------------------------------------
(* The calls modelled: datasets and column lists.                          *)
\* Ages: 30 lies on the lowest cut point of the age bins (outside every
\* bin), 60 on an inner one; 60, 70 and 90 occupy the three age bins.
AgeVals == {30, 60, 70, 90}

\* time and DEATH_EVENT of row r: distinct durations, both event flags.
TimeOf(r) == 10 * r
EventOf(r) == r % 2

\* A dataset of the heart-failure schema with the given ages; sex is text.
BaseData(n, age) ==
    [c \in {"age", "sex", "time", "DEATH_EVENT"} |->
        [r \in 1..n |->
            CASE c = "age" -> Num(age[r])
              [] c = "sex" -> (IF r % 2 = 0 THEN Txt("F", 0) ELSE Txt("M", 1))
              [] c = "time" -> Num(TimeOf(r))
              [] c = "DEATH_EVENT" -> Num(EventOf(r))]]

\* The dataset of the spec's scenarios: 10 rows, sex = 0 six times and 1 four
\* times, every age inside (30, 100] with all three age bins occupied.
ScenarioAges == <<45, 60, 61, 70, 80, 81, 90, 100, 55, 75>>
ScenarioData ==
    [c \in {"age", "sex", "time", "DEATH_EVENT"} |->
        [r \in 1..Len(ScenarioAges) |->
            CASE c = "age" -> Num(ScenarioAges[r])
              [] c = "sex" -> Num(IF r <= 6 THEN 0 ELSE 1)
              [] c = "time" -> Num(TimeOf(r))
              [] c = "DEATH_EVENT" -> Num(EventOf(r))]]

\* Variants of a base dataset: a column missing, or a column that already
\* carries the name of the scratch column.
Variants(d) ==
    {d, DropColumn(d, "sex"), DropColumn(d, "time"), DropColumn(d, "DEATH_EVENT"),
     SetColumn(d, "age_group",
               [r \in DOMAIN d["age"] |-> Txt("kept", 0)])}

\* Every variant of the n-row datasets with ages drawn from vals.
DatasetsOf(n, vals) == UNION {Variants(BaseData(n, age)) : age \in [1..n -> vals]}

Datasets ==
    UNION {DatasetsOf(n, AgeVals) : n \in 1..MaxRows} \cup Variants(ScenarioData)

\* Column lists of up to MaxCols names: "age" throughout, or with "sex" in
\* the first or the last position.
ColumnLists ==
    UNION {{[i \in 1..n |-> "age"],
            [i \in 1..n |-> IF i = 1 THEN "sex" ELSE "age"],
            [i \in 1..n |-> IF i = n THEN "sex" ELSE "age"]} : n \in 0..MaxCols}

Init ==
    /\ routine \in {"cat", "cont"}
    /\ columns \in ColumnLists
    /\ data \in Datasets
    /\ data0 = data
    /\ pc = "start"
    /\ idx = 0
    /\ ax = <<>>
    /\ shown = FALSE
    /\ exc = "none"
    /\ excLine = 0
    /\ split_points = NoSplit
    /\ range_hue = <<>>
    /\ X = <<>>
    /\ Y = <<>>
    /\ fit_label = <<>>
    /\ fits = <<>>

-----------------------------------------------------------------------------
(* Steps shared by the actions.                                            *)
Raise(e, line) ==
    /\ pc' = "raised"
    /\ exc' = e
    /\ excLine' = line

NoRaise == UNCHANGED <<exc, excLine>>

Feature == columns[idx + 1]

Locals == <<split_points, range_hue, X, Y, fit_label, fits>>
Args == <<routine, columns, data0>>

-----------------------------------------------------------------------------
(* PlotKaplanMeierEstimatesForCategoricalVariables                         *)

\* line 38: categoricalData = data.loc(axis=1)[categorical_columns]
CatSelect ==
    /\ routine = "cat" /\ pc = "start"
    /\ IF LocFails(data, columns)
       THEN Raise("KeyError", 38)
       ELSE pc' = "subplots" /\ NoRaise
    /\ UNCHANGED <<Args, data, idx, ax, shown, Locals>>

\* lines 40-41: fig, ax = plt.subplots(nrows=2, ncols=3); tight_layout
CatSubplots ==
    /\ routine = "cat" /\ pc = "subplots"
    /\ ax' = [i \in 1..CatPanels |-> EmptyPanel]
    /\ idx' = 0
    /\ pc' = "loop"
    /\ UNCHANGED <<Args, data, shown, exc, excLine, Locals>>

\* line 70: for idx, feature in enumerate(categorical_columns)
CatLoop ==
    /\ routine = "cat" /\ pc = "loop"
    /\ pc' = IF idx < Len(columns) THEN "stratify" ELSE "hide"
    /\ UNCHANGED <<Args, data, idx, ax, shown, exc, excLine, Locals>>

\* lines 58-62 of km_fits: range_hue, X, Y, fit_label
CatStratify ==
    /\ routine = "cat" /\ pc = "stratify"
    /\ LET hue == NpUnique(data[Feature]).val
       IN  IF ~HasColumn(data, "time")
           THEN Raise("KeyError", 60) /\ range_hue' = hue
                /\ UNCHANGED <<X, Y, fit_label>>
           ELSE IF ~HasColumn(data, "DEATH_EVENT")
           THEN Raise("KeyError", 61) /\ range_hue' = hue
                /\ X' = [i \in DOMAIN hue |-> Select(data, Feature, hue[i], "time")]
                /\ UNCHANGED <<Y, fit_label>>
           ELSE /\ range_hue' = hue
                /\ X' = [i \in DOMAIN hue |-> Select(data, Feature, hue[i], "time")]
                /\ Y' = [i \in DOMAIN hue |->
                            Select(data, Feature, hue[i], "DEATH_EVENT")]
                /\ fit_label' = [i \in DOMAIN hue |-> CatLabel(Feature, hue[i])]
                /\ pc' = "fit"
                /\ NoRaise
    /\ UNCHANGED <<Args, data, idx, ax, shown, split_points, fits>>

\* lines 64-68 of km_fits and line 71: cat_fits = km_fits(...)
CatFit ==
    /\ routine = "cat" /\ pc = "fit"
    /\ IF \E i \in DOMAIN X : FitRejects(X[i])
       THEN Raise("ValueError", 64) /\ UNCHANGED fits
       ELSE /\ fits' = [i \in DOMAIN X |-> KmFit(X[i], Y[i], fit_label[i])]
            /\ pc' = "plot"
            /\ NoRaise
    /\ UNCHANGED <<Args, data, idx, ax, shown, split_points, range_hue, X, Y,
                   fit_label>>

\* lines 74-76: [x.plot(..., ax=ax.flatten()[idx]) for x in cat_fits]
CatPlot ==
    /\ routine = "cat" /\ pc = "plot"
    /\ IF fits # <<>> /\ idx >= Len(ax)
       THEN Raise("IndexError", 76) /\ UNCHANGED <<ax, idx>>
       ELSE /\ ax' = IF fits = <<>> THEN ax
                     ELSE [ax EXCEPT ![idx + 1] = PlotInto(ax[idx + 1], Feature, fits)]
            /\ idx' = idx + 1
            /\ pc' = "loop"
            /\ NoRaise
    /\ UNCHANGED <<Args, data, shown, Locals>>

\* line 78: ax.flatten()[-1].set_visible(False)
CatHide ==
    /\ routine = "cat" /\ pc = "hide"
    /\ ax' = HideFromEnd(ax, 1)
    /\ pc' = "show"
    /\ UNCHANGED <<Args, data, idx, shown, exc, excLine, Locals>>

\* lines 79-82: fig.suptitle(...); plt.show(); return None
CatShow ==
    /\ routine = "cat" /\ pc = "show"
    /\ shown' = TRUE
    /\ pc' = "done"
    /\ UNCHANGED <<Args, data, idx, ax, exc, excLine, Locals>>

-----------------------------------------------------------------------------
(* PlotKaplanMeierEstimatesForContinuousVariables                          *)

\* line 108: continuousData = data.loc(axis=1)[contituous_columns]
ContSelect ==
    /\ routine = "cont" /\ pc = "start"
    /\ IF LocFails(data, columns)
       THEN Raise("KeyError", 108)
       ELSE pc' = "subplots" /\ NoRaise
    /\ UNCHANGED <<Args, data, idx, ax, shown, Locals>>

\* lines 110-111: fig, ax = plt.subplots(nrows=3, ncols=3); tight_layout
ContSubplots ==
    /\ routine = "cont" /\ pc = "subplots"
    /\ ax' = [i \in 1..ContPanels |-> EmptyPanel]
    /\ idx' = 0
    /\ pc' = "loop"
    /\ UNCHANGED <<Args, data, shown, exc, excLine, Locals>>

\* lines 147-151: the loop head and the arguments of the km_fits call
ContLoop ==
    /\ routine = "cont" /\ pc = "loop"
    /\ IF idx >= Len(columns)
       THEN pc' = "hide" /\ NoRaise /\ UNCHANGED split_points
       ELSE IF SplitIndexFails(idx)
       THEN Raise("IndexError", 151) /\ UNCHANGED split_points
       ELSE /\ split_points' = SplitPointsAt(idx)
            /\ pc' = "cut"
            /\ NoRaise
    /\ UNCHANGED <<Args, data, idx, ax, shown, range_hue, X, Y, fit_label, fits>>

\* lines 129-132 of km_fits: bins, range_hue, the scratch column
ContCut ==
    /\ routine = "cont" /\ pc = "cut"
    /\ LET bins == PdCut(data[Feature], split_points)
           hue  == NpUnique(bins.col)
       IN  IF bins.err # "none"
           THEN Raise(bins.err, 129) /\ UNCHANGED <<data, range_hue>>
           ELSE IF hue.err # "none"
           THEN Raise(hue.err, 130) /\ UNCHANGED <<data, range_hue>>
           ELSE /\ range_hue' = hue.val
                /\ data' = SetColumn(data, HueGroup(Feature),
                                     PdCut(data[Feature], split_points).col)
                /\ pc' = "subgroups"
                /\ NoRaise
    /\ UNCHANGED <<Args, idx, ax, shown, split_points, X, Y, fit_label, fits>>

\* lines 134-137 of km_fits: X, Y, fit_label, drop of the scratch column
ContSubgroups ==
    /\ routine = "cont" /\ pc = "subgroups"
    /\ LET g == HueGroup(Feature)
       IN  IF ~HasColumn(data, "time")
           THEN Raise("KeyError", 134) /\ UNCHANGED <<data, X, Y, fit_label>>
           ELSE IF ~HasColumn(data, "DEATH_EVENT")
           THEN Raise("KeyError", 135)
                /\ X' = [i \in DOMAIN range_hue |->
                            Select(data, g, range_hue[i], "time")]
                /\ UNCHANGED <<data, Y, fit_label>>
           ELSE /\ X' = [i \in DOMAIN range_hue |->
                            Select(data, g, range_hue[i], "time")]
                /\ Y' = [i \in DOMAIN range_hue |->
                            Select(data, g, range_hue[i], "DEATH_EVENT")]
                /\ fit_label' = [i \in DOMAIN range_hue |-> ContLabel(range_hue[i])]
                /\ data' = DropColumn(data, g)
                /\ pc' = "fit"
                /\ NoRaise
    /\ UNCHANGED <<Args, idx, ax, shown, split_points, range_hue, fits>>

\* lines 139-143 of km_fits and line 149: cont_fits = km_fits(...)
ContFit ==
    /\ routine = "cont" /\ pc = "fit"
    /\ IF \E i \in DOMAIN X : FitRejects(X[i])
       THEN Raise("ValueError", 139) /\ UNCHANGED fits
       ELSE /\ fits' = [i \in DOMAIN X |-> KmFit(X[i], Y[i], fit_label[i])]
            /\ pc' = "plot"
            /\ NoRaise
    /\ UNCHANGED <<Args, data, idx, ax, shown, split_points, range_hue, X, Y,
                   fit_label>>

\* lines 153-155: [x.plot(..., ax=ax.flatten()[idx]) for x in cont_fits]
ContPlot ==
    /\ routine = "cont" /\ pc = "plot"
    /\ IF fits # <<>> /\ idx >= Len(ax)
       THEN Raise("IndexError", 155) /\ UNCHANGED <<ax, idx>>
       ELSE /\ ax' = IF fits = <<>> THEN ax
                     ELSE [ax EXCEPT ![idx + 1] = PlotInto(ax[idx + 1], Feature, fits)]
            /\ idx' = idx + 1
            /\ pc' = "loop"
            /\ NoRaise
    /\ UNCHANGED <<Args, data, shown, Locals>>

\* lines 157-158: ax.flatten()[-1] and [-2] .set_visible(False)
ContHide ==
    /\ routine = "cont" /\ pc = "hide"
    /\ ax' = HideFromEnd(HideFromEnd(ax, 1), 2)
    /\ pc' = "show"
    /\ UNCHANGED <<Args, data, idx, shown, exc, excLine, Locals>>

\* lines 160-162: fig.suptitle(...); plt.show()
ContShow ==
    /\ routine = "cont" /\ pc = "show"
    /\ shown' = TRUE
    /\ pc' = "done"
    /\ UNCHANGED <<Args, data, idx, ax, exc, excLine, Locals>>

Next ==
    \/ CatSelect \/ CatSubplots \/ CatLoop \/ CatStratify \/ CatFit \/ CatPlot
    \/ CatHide \/ CatShow
    \/ ContSelect \/ ContSubplots \/ ContLoop \/ ContCut \/ ContSubgroups
    \/ ContFit \/ ContPlot \/ ContHide \/ ContShow

Spec == Init /\ [][Next]_vars

TypeOK == pc \in {"start", "subplots", "loop", "stratify", "cut", "subgroups",
                  "fit", "plot", "hide", "show", "done", "raised"}

-----------------------------------------------------------------------------
(* Vocabulary of the properties.                                           *)
Ended == pc \in {"done", "raised"}
Rows == DOMAIN data0[CHOOSE c \in DOMAIN data0 : TRUE]

\* Panels 1..idx have been drawn into (idx counts the finished iterations).
DrawnPanels == IF ax = <<>> THEN {} ELSE 1..idx

\* The value of row r in column col lies in a bin of specification sp: always
\* for a bin count, inside (first cut, last cut] for explicit cut points.
InSomeBin(col, r, sp) ==
    \/ sp.n > 0
    \/ /\ sp.edges[1] < data0[col][r].a
       /\ data0[col][r].a <= sp.edges[Len(sp.edges)]

\* Number of subgroups (of those in X) that hold row r.
SubgroupsOf(r) == Cardinality({i \in DOMAIN X : r \in DOMAIN X[i]})

\* The bins of specification sp on column col that hold at least one row.
OccupiedBins(col, sp) ==
    LET e == CutEdges(data0[col], sp)
    IN  {j \in 1..(Len(e) - 1) :
            \E r \in Rows : /\ e[j] < data0[col][r].a * Unit
                            /\ data0[col][r].a * Unit <= e[j + 1]}

\* The text "(lo - hi)" of bin j.
BinText(cats, j) ==
    "(" \o FloatStr(cats[j].a) \o " - " \o FloatStr(cats[j].b) \o ")"

Labels(panel) == {panel.curves[j].label : j \in DOMAIN panel.curves}

-----------------------------------------------------------------------------
\* C1 (as stated): whenever subgroups are handed to the estimator, every row
\* of the dataset is in exactly one of them.
C1_Original == pc = "fit" => \A r \in Rows : SubgroupsOf(r) = 1

\* C1 (amended): whenever subgroups are handed to the estimator they are
\* pairwise disjoint; a row whose value lies in a bin (categorical: every
\* row) is in exactly one subgroup, a row outside every bin is in none.
C1_Partition ==
    pc = "fit" =>
        \A r \in Rows :
            IF routine = "cat" \/ InSomeBin(Feature, r, data_split_points[idx + 1])
            THEN SubgroupsOf(r) = 1
            ELSE SubgroupsOf(r) = 0

C1_Witness ==
    /\ pc = "fit" /\ routine = "cont"
    /\ split_points.n = 0
    /\ Len(X) = 3
    /\ \A r \in Rows : SubgroupsOf(r) = 1

\* C2: in the categorical routine a drawn panel holds exactly one curve per
\* distinct value of its column, labelled "<column>: <value>" and fitted on
\* the (time, DEATH_EVENT) pairs of exactly the rows with that value; sex
\* with six 0 and four 1 gives "sex: 0" on 6 pairs and "sex: 1" on 4.
C2_PanelOk(i) ==
    LET col == columns[i]
        vals == {data0[col][r] : r \in Rows}
        curves == ax[i].curves
    IN  /\ Len(curves) = Cardinality(vals)
        /\ \A v \in vals : \E j \in DOMAIN curves :
              /\ curves[j].label = col \o ": " \o PyStr(v)
              /\ DOMAIN curves[j].durations = {r \in Rows : data0[col][r] = v}
              /\ DOMAIN curves[j].event_observed = {r \in Rows : data0[col][r] = v}
              /\ \A r \in DOMAIN curves[j].durations :
                    /\ curves[j].durations[r] = data0["time"][r]
                    /\ curves[j].event_observed[r] = data0["DEATH_EVENT"][r]
        /\ (data0 = ScenarioData /\ col = "sex") =>
              /\ Len(curves) = 2
              /\ curves[1].label = "sex: 0"
              /\ Cardinality(DOMAIN curves[1].durations) = 6
              /\ curves[2].label = "sex: 1"
              /\ Cardinality(DOMAIN curves[2].durations) = 4

C2_CategoricalCurves ==
    routine = "cat" => \A i \in DrawnPanels : C2_PanelOk(i)

C2_Witness ==
    /\ routine = "cat" /\ pc = "done" /\ data0 = ScenarioData
    /\ Len(columns) = 2 /\ columns[1] = "sex"
    /\ Len(ax[1].curves) = 2
    /\ Cardinality(DOMAIN ax[1].curves[1].durations) = 6
    /\ Cardinality(DOMAIN ax[1].curves[2].durations) = 4
    /\ Len(ax[2].curves) = 10

\* C3 (as stated): in the continuous routine a drawn panel holds exactly k
\* curves, k the number of bins of its bin specification.
C3_Original ==
    routine = "cont" =>
        \A i \in DrawnPanels :
            LET sp == data_split_points[i]
            IN  Len(ax[i].curves) = IF sp.n = 0 THEN Len(sp.edges) - 1 ELSE sp.n

\* C3 (amended): a drawn panel holds exactly one curve per bin that holds a
\* row (k curves only when no bin is empty), labelled with that bin's range;
\* the k bins are consecutive intervals (lo, hi] without gaps or overlaps,
\* and every value of a drawn column lies between the first bin's lower
\* bound (excluded) and the last bin's upper bound (included).
C3_PanelOk(i) ==
    LET col == columns[i]
        sp == data_split_points[i]
        cats == CutCategories(data0[col], sp)
        occupied == OccupiedBins(col, sp)
        k == IF sp.n = 0 THEN Len(sp.edges) - 1 ELSE sp.n
    IN  /\ Len(cats) = k
        /\ Len(ax[i].curves) = Cardinality(occupied)
        /\ Len(ax[i].curves) <= k
        /\ Labels(ax[i]) = {BinText(cats, j) : j \in occupied}
        /\ \A j \in 1..k : cats[j].a < cats[j].b
        /\ \A j \in 1..(k - 1) : cats[j].b = cats[j + 1].a
        /\ \A r \in Rows : /\ cats[1].a < data0[col][r].a * 1000
                           /\ data0[col][r].a * 1000 <= cats[k].b

C3_ContinuousCurves ==
    routine = "cont" => \A i \in DrawnPanels : C3_PanelOk(i)

C3_Witness ==
    /\ routine = "cont" /\ pc = "done" /\ Len(columns) = 2
    /\ Len(ax[1].curves) = 2
    /\ Len(ax[2].curves) = 2
    /\ split_points.n = 3

\* C4 (as stated): the curves of a column cut at [30, 60, 80, 100] are
\* labelled "30.0 - 60.0)", "60.0 - 80.0)", "80.0 - 100.0)".
C4_Original ==
    (routine = "cont" /\ 1 \in DrawnPanels) =>
        Labels(ax[1]) \subseteq {"30.0 - 60.0)", "60.0 - 80.0)", "80.0 - 100.0)"}

\* C4 (amended): the curves of the column cut at [30, 60, 80, 100] are
\* labelled "(30.0 - 60.0)", "(60.0 - 80.0)", "(80.0 - 100.0)" (the opening
\* bracket stays), and each labelled bin excludes its lower bound and
\* contains its upper bound: the curve of a label is fitted on exactly the
\* rows with lower < value <= upper.
C4_BinRows(lo, hi) ==
    {r \in Rows : lo < data0[columns[1]][r].a /\ data0[columns[1]][r].a <= hi}

C4_CurveOk(c) ==
    /\ c.label \in {"(30.0 - 60.0)", "(60.0 - 80.0)", "(80.0 - 100.0)"}
    /\ c.label = "(30.0 - 60.0)" => DOMAIN c.durations = C4_BinRows(30, 60)
    /\ c.label = "(60.0 - 80.0)" => DOMAIN c.durations = C4_BinRows(60, 80)
    /\ c.label = "(80.0 - 100.0)" => DOMAIN c.durations = C4_BinRows(80, 100)

C4_Labels ==
    (routine = "cont" /\ 1 \in DrawnPanels) =>
        /\ \A j \in DOMAIN ax[1].curves : C4_CurveOk(ax[1].curves[j])
        /\ (data0 = ScenarioData /\ columns[1] = "age") =>
              [j \in DOMAIN ax[1].curves |-> ax[1].curves[j].label]
                  = <<"(30.0 - 60.0)", "(60.0 - 80.0)", "(80.0 - 100.0)">>

\* The scenario's age column: three curves; row 2 (age 60) is in the first
\* bin and row 5 (age 80) in the second.
C4_Witness ==
    /\ routine = "cont" /\ pc = "done" /\ data0 = ScenarioData
    /\ columns = <<"age">>
    /\ Len(ax[1].curves) = 3
    /\ ax[1].curves[1].label = "(30.0 - 60.0)"
    /\ 2 \in DOMAIN ax[1].curves[1].durations
    /\ 5 \in DOMAIN ax[1].curves[2].durations

\* A "<feature>_group" column that the call wrote and left in the dataset.
ScratchLeft ==
    \E i \in DOMAIN columns :
        LET g == HueGroup(columns[i])
        IN  /\ HasColumn(data, g)
            /\ (HasColumn(data0, g) => data[g] # data0[g])

\* C5: after a call of the continuous routine, returned or aborted, the
\* dataset holds no residual "<feature>_group" scratch column.
C5_NoScratchLeft == (routine = "cont" /\ Ended) => ~ScratchLeft

\* C6: after a completed call with n columns every panel at an index >= n
\* is hidden.
C6_LeftoverHidden ==
    pc = "done" => \A i \in (Len(columns) + 1)..Len(ax) : ~ax[i].visible

LocFailsAtCall == \E i \in DOMAIN columns : columns[i] \notin DOMAIN data0

\* C7: a name of the column list that is no column of the dataset aborts
\* the call with KeyError at the first lookup (line 38 / 108), before any
\* panel exists, anything is fitted or the dataset is written.
C7_MissingColumn ==
    LocFailsAtCall =>
        \/ pc = "start"
        \/ /\ pc = "raised" /\ exc = "KeyError"
           /\ excLine = (IF routine = "cat" THEN 38 ELSE 108)
           /\ ax = <<>> /\ fits = <<>> /\ X = <<>> /\ Y = <<>>
           /\ data = data0

C7_Witness ==
    /\ routine = "cont" /\ pc = "raised" /\ exc = "KeyError"
    /\ Len(columns) = 3
    /\ HasColumn(data0, columns[1])
    /\ ~HasColumn(data0, columns[3])
    /\ data = data0

\* C8: when the continuous routine returns the dataset equals what it was
\* before the call; the categorical routine never writes to it.
C8_DatasetRestored ==
    /\ (routine = "cont" /\ pc = "done") => data = data0
    /\ routine = "cat" => data = data0

\* C9: position i of the column list is cut with entry i of the bin
\* specifications and drawn into panel i, whatever the column's name; a
\* list of more than 7 names never returns: its call is aborted, and when
\* position 7 is reached it is by IndexError at line 151 with panels 0..6
\* drawn.
C9_ExplicitLabels(i) ==
    CASE i = 1 -> {"(30.0 - 60.0)", "(60.0 - 80.0)", "(80.0 - 100.0)"}
      [] i = 3 -> {"(0.0 - 30.0)", "(30.0 - 45.0)", "(45.0 - 100.0)"}

C9_Positional ==
    routine = "cont" =>
        /\ pc \in {"cut", "subgroups", "fit", "plot"} =>
              split_points = data_split_points[idx + 1]
        /\ \A i \in DrawnPanels :
              /\ ax[i].title = columns[i]
              /\ ax[i].curves # <<>>
              /\ i \in {1, 3} => Labels(ax[i]) \subseteq C9_ExplicitLabels(i)
        /\ \A i \in DOMAIN ax : i \notin DrawnPanels => ax[i].curves = <<>>
        /\ idx <= 7
        /\ Len(columns) > 7 => pc \notin {"hide", "show", "done"}
        /\ (Len(columns) > 7 /\ idx = 7) => pc \in {"loop", "raised"}
        /\ (pc = "raised" /\ idx = 7) =>
              /\ Len(columns) > 7
              /\ exc = "IndexError" /\ excLine = 151
              /\ DrawnPanels = 1..7

C9_Witness ==
    /\ routine = "cont" /\ pc = "raised" /\ exc = "IndexError" /\ idx = 7
    /\ columns[1] = "age" /\ columns[3] = "age"
    /\ "(45.0 - 100.0)" \in Labels(ax[3])
    /\ \A i \in 1..7 : ax[i].curves # <<>>

\* C10: when a routine returns, every panel that holds a curve is visible.
C10_DrawnVisible ==
    pc = "done" => \A i \in DOMAIN ax : ax[i].curves # <<>> => ax[i].visible
====
